---- MODULE Spec2Model ----
(***************************************************************************)
(* Model of system/pam_limits.py: main() reconciles one limit directive   *)
(* of a limits.conf style file.                                            *)
(*                                                                         *)
(* Text is modelled as a sequence of tokens.  Every token is a piece of    *)
(* text: the separators " ", "\t", "\n" and "#", and words that hold no    *)
(* separator.  The word set is prefix free, so equality and startswith on  *)
(* the token sequences coincide with equality and startswith on the        *)
(* strings they spell.  A file is the token sequence of its bytes, a field *)
(* of a line is the sequence of the adjacent words that form it.           *)
(***************************************************************************)
EXTENDS Integers, Sequences, FiniteSets, TLC

MaxLines == 2

\* ------------------------------------------------------------------------
\* Text helpers: the string operations main() uses
\* ------------------------------------------------------------------------

NL == "\n"

TAB == "\t"

IsSpace(t) == t \in {" ", TAB, NL}

StartsWith(s, p) == Len(s) >= Len(p) /\ SubSeq(s, 1, Len(p)) = p

Drop(s, n) == SubSeq(s, n + 1, Len(s))

RECURSIVE Flatten(_)
Flatten(chunks) ==
    IF chunks = <<>> THEN <<>> ELSE Head(chunks) \o Flatten(Tail(chunks))

\* index of the first token of s equal to t, 0 when there is none
RECURSIVE IndexOf(_, _)
IndexOf(s, t) ==
    IF s = <<>> THEN 0
    ELSE IF Head(s) = t THEN 1
    ELSE LET r == IndexOf(Tail(s), t) IN IF r = 0 THEN 0 ELSE r + 1

\* one iteration of "for line in f": the text up to and including the first
\* line terminator, or all that is left when there is no terminator
NextLine(s) ==
    LET i == IndexOf(s, NL) IN IF i = 0 THEN s ELSE SubSeq(s, 1, i)

RECURSIVE SplitLines(_)
SplitLines(s) ==
    IF s = <<>> THEN <<>>
    ELSE LET l == NextLine(s) IN <<l>> \o SplitLines(Drop(s, Len(l)))

RECURSIVE LStrip(_)
LStrip(s) ==
    IF s # <<>> /\ IsSpace(Head(s)) THEN LStrip(Tail(s)) ELSE s

RECURSIVE RStrip(_)
RStrip(s) ==
    IF s # <<>> /\ IsSpace(s[Len(s)]) THEN RStrip(SubSeq(s, 1, Len(s) - 1)) ELSE s

\* re.sub(r'\s+', ' ', s): every run of whitespace becomes one blank
RECURSIVE Collapse(_)
Collapse(s) ==
    IF s = <<>> THEN <<>>
    ELSE IF IsSpace(Head(s)) THEN <<" ">> \o Collapse(LStrip(s))
    ELSE <<Head(s)>> \o Collapse(Tail(s))

\* re.sub(space_pattern, ' ', line).strip()
Normalize(line) == RStrip(LStrip(Collapse(line)))

\* s.split('#', 1)[0]
BeforeHash(s) ==
    LET i == IndexOf(s, "#") IN IF i = 0 THEN s ELSE SubSeq(s, 1, i - 1)

\* s.split('#', 1)[1], '' when the index does not exist
AfterHash(s) ==
    LET i == IndexOf(s, "#") IN IF i = 0 THEN <<>> ELSE Drop(s, i)

\* s.split(' '): the pieces between single blanks; ''.split(' ') is ['']
RECURSIVE Split(_)
Split(s) ==
    LET i == IndexOf(s, " ")
    IN IF i = 0 THEN <<s>> ELSE <<SubSeq(s, 1, i - 1)>> \o Split(Drop(s, i))

Digits == <<"0", "1", "2", "3", "4", "5", "6", "7", "8", "9">>

IsDigit(t) == \E i \in 1..Len(Digits) : Digits[i] = t

DigitValue(t) == (CHOOSE i \in 1..Len(Digits) : Digits[i] = t) - 1

\* int(field) succeeds: the field spells a base 10 integer
IsInt(field) == field # <<>> /\ \A i \in 1..Len(field) : IsDigit(field[i])

\* int(field)
RECURSIVE IntOf(_)
IntOf(field) ==
    IF Len(field) = 1 THEN DigitValue(field[1])
    ELSE IntOf(SubSeq(field, 1, Len(field) - 1)) * 10 + DigitValue(field[Len(field)])

\* str(n) for n >= 0
RECURSIVE Str(_)
Str(n) ==
    IF n < 10 THEN <<Digits[n + 1]>>
    ELSE Str(n \div 10) \o <<Digits[(n % 10) + 1]>>

Max(a, b) == IF a >= b THEN a ELSE b

Min(a, b) == IF a <= b THEN a ELSE b

\* ------------------------------------------------------------------------
\* The request and the input files
\* ------------------------------------------------------------------------

\* the key of the request: module.params['domain'], ['limit_type'], ['limit_item']
domain == <<"dom">>

limit_type == <<"soft">>

limit_item == <<"core">>

EofMarker == <<"#", " ", "End", " ", "of", " ", "file">>

Values == {1, 2}

Comments == {<<>>, <<"hi">>}

Params ==
    [value : Values, use_max : BOOLEAN, use_min : BOOLEAN,
     backup : BOOLEAN, comment : Comments]

\* the lines an input file is made of, without their terminator
LineBodies ==
    { <<>>,
      <<"#", " ", "hi">>,
      EofMarker,
      <<"dom", " ", "soft", " ", "core", " ", "1">>,
      <<"dom", TAB, "soft", TAB, "core", TAB, "1", "2", " ", "#", " ", "hi">>,
      <<" ", "oth", " ", " ", "soft", " ", "core", " ", "1", "#", "hi">>,
      <<"dom", " ", "soft", " ", "core", " ", "1", " ", "2">>,
      <<"oth", " ", "soft", " ", "core", " ", "hi">> }

LineSeqs == UNION { [1..n -> LineBodies] : n \in 0..MaxLines }

\* the file made of the lines ls; the last line has a terminator iff term
RECURSIVE Content(_, _)
Content(ls, term) ==
    IF Len(ls) = 0 THEN <<>>
    ELSE IF Len(ls) = 1 THEN (IF term THEN ls[1] \o <<NL>> ELSE ls[1])
    ELSE ls[1] \o <<NL>> \o Content(Tail(ls), term)

Files == { Content(ls, term) : ls \in LineSeqs, term \in BOOLEAN }

NoBackup == [taken |-> FALSE, content |-> <<>>]

\* ------------------------------------------------------------------------
\* State
\* ------------------------------------------------------------------------

VARIABLES
    limits_conf,   \* content of the target file
    params,        \* module.params
    pc,            \* position in main()
    run,           \* "first" or "second" invocation with the same params
    before,        \* content of the target file when the invocation started
    error,         \* "none", "precondition" (fail_json) or "parse" (ValueError)
    backup_file,   \* the snapshot module.backup_local took, if any
    f,             \* the unread rest of the open target file
    nf,            \* the writes made to the temporary file, in order
    nf_state,      \* "none", "open" or "closed"
    found,
    has_eof,
    new_value,
    new_comment,
    changed,
    message,
    moves          \* number of atomic_move calls of this invocation

vars ==
    <<limits_conf, params, pc, run, before, error, backup_file, f, nf,
      nf_state, found, has_eof, new_value, new_comment, changed, message, moves>>

loopvars == <<nf, found, has_eof, new_value, new_comment, changed, message>>

\* main() up to "changed = False": a fresh invocation
Init ==
    /\ limits_conf \in Files
    /\ params \in Params
    /\ pc = "check"
    /\ run = "first"
    /\ before = limits_conf
    /\ error = "none"
    /\ backup_file = NoBackup
    /\ f = <<>>
    /\ nf = <<>>
    /\ nf_state = "none"
    /\ found = FALSE
    /\ has_eof = FALSE
    /\ new_value = params.value
    /\ new_comment = params.comment
    /\ changed = FALSE
    /\ message = <<>>
    /\ moves = 0

\* ------------------------------------------------------------------------
\* main(), one action per step
\* ------------------------------------------------------------------------

\* Validate without the test of the two flags
ValidateUnchecked ==
    /\ pc = "check"
    /\ pc' = "backup"
    /\ UNCHANGED <<limits_conf, params, run, before, error, backup_file, f,
                   nf_state, moves, loopvars>>

\* "if use_max and use_min: module.fail_json(...)".  The target file of the
\* model exists and is writable, so the two checks before it pass.
Validate ==
    /\ pc = "check"
    /\ IF params.use_max /\ params.use_min
       THEN pc' = "failed" /\ error' = "precondition"
       ELSE pc' = "backup" /\ error' = error
    /\ UNCHANGED <<limits_conf, params, run, before, backup_file, f, nf_state,
                   moves, loopvars>>

\* Backup moved behind the replacement: the snapshot is taken on the way out
BackupLate ==
    \/ /\ pc = "backup"
       /\ pc' = "open"
       /\ UNCHANGED <<limits_conf, params, run, before, error, backup_file, f,
                      nf_state, moves, loopvars>>
    \/ /\ pc = "exit"
       /\ params.backup
       /\ ~backup_file.taken
       /\ backup_file' = [taken |-> TRUE, content |-> limits_conf]
       /\ UNCHANGED <<limits_conf, params, pc, run, before, error, f, nf_state,
                      moves, loopvars>>

\* "if backup: backup_file = module.backup_local(limits_conf)"
Backup ==
    /\ pc = "backup"
    /\ backup_file' = IF params.backup
                      THEN [taken |-> TRUE, content |-> limits_conf]
                      ELSE backup_file
    /\ pc' = "open"
    /\ UNCHANGED <<limits_conf, params, run, before, error, f, nf_state,
                   moves, loopvars>>

\* open(limits_conf), NamedTemporaryFile, found / has_eof / new_value
Open ==
    /\ pc = "open"
    /\ f' = limits_conf
    /\ nf' = <<>>
    /\ nf_state' = "open"
    /\ message' = <<>>
    /\ found' = FALSE
    /\ has_eof' = FALSE
    /\ new_value' = params.value
    /\ pc' = "loop"
    /\ UNCHANGED <<limits_conf, params, run, before, error, backup_file,
                   moves, new_comment, changed>>

\* "if not new_comment: new_comment = old_comment" and
\* "if new_comment: new_comment = '\t#' + new_comment", run for every line
\* that is neither a comment nor blank
NextComment(cur_comment, old_comment) ==
    LET c == IF cur_comment = <<>> THEN old_comment ELSE cur_comment
    IN IF c # <<>> THEN <<TAB, "#">> \o c ELSE c

\* "if line_domain == domain and line_type == limit_type and line_item == limit_item"
KeyMatches(line_fields) ==
    /\ line_fields[1] = domain
    /\ line_fields[2] = limit_type
    /\ line_fields[3] = limit_item

\* ValueError with the value parsed only once the key has matched
ValueErrorOnMatch(line_fields) ==
    KeyMatches(line_fields) /\ ~IsInt(line_fields[4])

\* "actual_value = int(line_fields[3])" raises ValueError; it is evaluated
\* for every line of four fields, before the key is compared
ValueError(line_fields) == ~IsInt(line_fields[4])

\* PolicyValue merging into the running new_value instead of the request's value
PolicyValueRunning(value, actual_value, cur_value, use_max, use_min) ==
    LET v1 == IF use_max THEN Max(cur_value, actual_value) ELSE cur_value
    IN IF use_min THEN Min(cur_value, actual_value) ELSE v1

\* "if use_max: new_value = max(value, actual_value)" and
\* "if use_min: new_value = min(value, actual_value)"; cur_value is the
\* value new_value holds when the line is reached
PolicyValue(value, actual_value, cur_value, use_max, use_min) ==
    LET v1 == IF use_max THEN Max(value, actual_value) ELSE cur_value
    IN IF use_min THEN Min(value, actual_value) ELSE v1

\* domain + "\t" + limit_type + "\t" + limit_item + "\t" + str(new_value)
\*   + new_comment + "\n"
NewLimit(value, comment) ==
    domain \o <<TAB>> \o limit_type \o <<TAB>> \o limit_item \o <<TAB>>
        \o Str(value) \o comment \o <<NL>>

\* the body of "for line in f": the loop state after the line, and whether
\* the line raised
LineStep(line) ==
    LET cur == [nf |-> nf, found |-> found, has_eof |-> has_eof,
                new_value |-> new_value, new_comment |-> new_comment,
                changed |-> changed, message |-> message, raised |-> FALSE]
    IN IF StartsWith(line, EofMarker) THEN [cur EXCEPT !.has_eof = TRUE]
       ELSE IF StartsWith(line, <<"#">>) THEN [cur EXCEPT !.nf = Append(nf, line)]
       ELSE LET newline == Normalize(line)
            IN IF newline = <<>> THEN [cur EXCEPT !.nf = Append(nf, line)]
               ELSE
    LET body == RStrip(BeforeHash(newline))
        old_comment == AfterHash(line)
        comment == NextComment(new_comment, old_comment)
        st == [cur EXCEPT !.new_comment = comment]
        line_fields == Split(body)
    IN IF Len(line_fields) # 4 THEN [st EXCEPT !.nf = Append(nf, line)]
       ELSE IF ValueError(line_fields) THEN [st EXCEPT !.raised = TRUE]
       ELSE IF ~KeyMatches(line_fields) THEN [st EXCEPT !.nf = Append(nf, line)]
       ELSE
    LET actual_value == IntOf(line_fields[4])
        value == params.value
        v == PolicyValue(value, actual_value, new_value,
                         params.use_max, params.use_min)
        new_limit == NewLimit(v, comment)
    IN IF value = actual_value
       THEN [st EXCEPT !.found = TRUE, !.message = line, !.nf = Append(nf, line)]
       ELSE IF v # actual_value
       THEN [st EXCEPT !.found = TRUE, !.new_value = v, !.changed = TRUE,
                       !.message = new_limit, !.nf = Append(nf, new_limit)]
       ELSE [st EXCEPT !.found = TRUE, !.new_value = v,
                       !.message = line, !.nf = Append(nf, line)]

\* one iteration of the loop; an uncaught ValueError ends the invocation
ProcessLine ==
    /\ pc = "loop"
    /\ f # <<>>
    /\ LET line == NextLine(f)
           st == LineStep(line)
       IN /\ f' = Drop(f, Len(line))
          /\ nf' = st.nf
          /\ found' = st.found
          /\ has_eof' = st.has_eof
          /\ new_value' = st.new_value
          /\ new_comment' = st.new_comment
          /\ changed' = st.changed
          /\ message' = st.message
          /\ IF st.raised
             THEN pc' = "failed" /\ error' = "parse"
             ELSE pc' = pc /\ error' = error
    /\ UNCHANGED <<limits_conf, params, run, before, backup_file, nf_state, moves>>

\* "if not found: ..." after the loop
AppendNew ==
    /\ pc = "loop"
    /\ f = <<>>
    /\ IF ~found
       THEN LET new_limit == NewLimit(new_value, new_comment)
            IN /\ changed' = TRUE
               /\ message' = new_limit
               /\ nf' = Append(nf, new_limit)
       ELSE UNCHANGED <<changed, message, nf>>
    /\ pc' = "eof"
    /\ UNCHANGED <<limits_conf, params, run, before, error, backup_file, f,
                   nf_state, moves, found, has_eof, new_value, new_comment>>

\* "if has_eof: nf.write('# End of file')"
WriteEof ==
    /\ pc = "eof"
    /\ nf' = IF has_eof THEN Append(nf, EofMarker) ELSE nf
    /\ pc' = "close"
    /\ UNCHANGED <<limits_conf, params, run, before, error, backup_file, f,
                   nf_state, moves, found, has_eof, new_value, new_comment,
                   changed, message>>

\* f.close(); nf.close()
Close ==
    /\ pc = "close"
    /\ nf_state' = "closed"
    /\ pc' = "move"
    /\ UNCHANGED <<limits_conf, params, run, before, error, backup_file, f,
                   moves, loopvars>>

\* module.atomic_move(nf.name, f.name)
AtomicMove ==
    /\ pc = "move"
    /\ limits_conf' = Flatten(nf)
    /\ moves' = moves + 1
    /\ pc' = "exit"
    /\ UNCHANGED <<params, run, before, error, backup_file, f, nf_state,
                   loopvars>>

\* module.exit_json(changed = changed, msg = message, ...)
Exit ==
    /\ pc = "exit"
    /\ pc' = "done"
    /\ UNCHANGED <<limits_conf, params, run, before, error, backup_file, f,
                   nf_state, moves, loopvars>>

\* the same request is applied once more to the file the first invocation left
Rerun ==
    /\ pc = "done"
    /\ run = "first"
    /\ run' = "second"
    /\ pc' = "check"
    /\ before' = limits_conf
    /\ backup_file' = NoBackup
    /\ f' = <<>>
    /\ nf' = <<>>
    /\ nf_state' = "none"
    /\ found' = FALSE
    /\ has_eof' = FALSE
    /\ new_value' = params.value
    /\ new_comment' = params.comment
    /\ changed' = FALSE
    /\ message' = <<>>
    /\ moves' = 0
    /\ UNCHANGED <<limits_conf, params, error>>

Next ==
    \/ Validate
    \/ Backup
    \/ Open
    \/ ProcessLine
    \/ AppendNew
    \/ WriteEof
    \/ Close
    \/ AtomicMove
    \/ Exit
    \/ Rerun

Spec == Init /\ [][Next]_vars

TypeOK ==
    /\ pc \in {"check", "backup", "open", "loop", "eof", "close", "move",
               "exit", "done", "failed"}
    /\ run \in {"first", "second"}
    /\ error \in {"none", "precondition", "parse"}
    /\ nf_state \in {"none", "open", "closed"}
    /\ moves \in 0..1

\* ------------------------------------------------------------------------
\* Vocabulary of the properties
\* ------------------------------------------------------------------------

IsEofLine(l) == StartsWith(l, EofMarker)

FieldsOf(l) == Split(RStrip(BeforeHash(Normalize(l))))

\* a record line: not a sentinel, comment or blank line, and four fields
IsRecord(l) ==
    /\ ~StartsWith(l, <<"#">>)
    /\ Normalize(l) # <<>>
    /\ Len(FieldsOf(l)) = 4

IsMatch(l) == IsRecord(l) /\ KeyMatches(FieldsOf(l))

IsPassthrough(l) == ~IsEofLine(l) /\ ~IsMatch(l)

NotEofLine(l) == ~IsEofLine(l)

ValueOf(l) == IntOf(FieldsOf(l)[4])

\* the lines of the target file when the invocation started
InLines == SplitLines(before)

\* the input lines that are not sentinel lines: line i of them is answered
\* by write i to the temporary file
Kept == SelectSeq(InLines, NotEofLine)

OutLines == SplitLines(limits_conf)

HasEofLine(ls) == \E i \in 1..Len(ls) : IsEofLine(ls[i])

HasMatch(ls) == \E i \in 1..Len(ls) : IsMatch(ls[i])

EofCount(ls) == IF HasEofLine(ls) THEN 1 ELSE 0

RECURSIVE IsSubseq(_, _)
IsSubseq(a, b) ==
    IF a = <<>> THEN TRUE
    ELSE IF b = <<>> THEN FALSE
    ELSE IF Head(a) = Head(b) THEN IsSubseq(Tail(a), Tail(b))
    ELSE IsSubseq(a, Tail(b))

NotNL(t) == t # NL

\* the comment of a line: the text after its first '#', terminators aside
CommentText(l) == SelectSeq(AfterHash(l), NotNL)

\* the value the merge policy asks for, given the existing value e
Merged(e) ==
    IF params.use_max THEN Max(params.value, e)
    ELSE IF params.use_min THEN Min(params.value, e)
    ELSE params.value

Finished == pc = "done"

\* ------------------------------------------------------------------------
\* Properties
\* ------------------------------------------------------------------------

\* C1: idempotence.  A second invocation with the same request on the file
\* the first one left succeeds, reports changed = false and leaves the file
\* byte-identical.
C1_Idempotent ==
    (run = "second" /\ pc \in {"done", "failed"})
        => (pc = "done" /\ ~changed /\ limits_conf = before)

\* C2: passthrough fidelity.  After a successful invocation the comment,
\* blank, malformed and non-matching record lines of the input are lines of
\* the output, byte for byte and in their input order: none is dropped,
\* altered or merged with another line.
C2_Passthrough ==
    Finished => IsSubseq(SelectSeq(InLines, IsPassthrough), OutLines)

\* C3: merge policy.  Every record line with the requested key and existing
\* value e is answered by a record with the value r = d (replace),
\* max(d, e) (use_max) or min(d, e) (use_min); it is rewritten, and changed
\* set, iff r # e, else the original line is emitted; each matching line is
\* judged against its own value, and when every matching line already holds
\* its r nothing is reported as changed.
C3_MergePolicy ==
    Finished =>
        LET kept == Kept
            matches == {i \in 1..Len(kept) : IsMatch(kept[i])}
        IN /\ \A i \in matches :
                 LET e == ValueOf(kept[i])
                     r == Merged(e)
                     out == NextLine(nf[i])
                 IN IF r # e
                    THEN /\ changed
                         /\ nf[i] # kept[i]
                         /\ IsMatch(out)
                         /\ IsInt(FieldsOf(out)[4])
                         /\ ValueOf(out) = r
                    ELSE nf[i] = kept[i]
           /\ (matches # {} /\ \A i \in matches :
                   Merged(ValueOf(kept[i])) = ValueOf(kept[i]))
                 => ~changed

\* C3 witness: two lines share the key, under use_min one keeps its value
\* and the other is rewritten.
C3_Witness ==
    /\ Finished
    /\ params.use_min
    /\ LET kept == Kept
       IN \E i, j \in 1..Len(kept) :
             /\ IsMatch(kept[i]) /\ IsMatch(kept[j])
             /\ nf[i] = kept[i]
             /\ nf[j] # kept[j]

\* C4: insertion.  When no record line has the requested key, exactly one
\* new record line with the key and the desired value is written after
\* every passed-through line and before the sentinel, and changed is
\* reported; when a record line matches, nothing is appended.
C4_Insertion ==
    Finished =>
        LET n == Len(Kept)
        IN IF HasMatch(Kept)
           THEN Len(nf) = n + EofCount(InLines)
           ELSE /\ changed
                /\ Len(nf) = n + 1 + EofCount(InLines)
                /\ \A i \in 1..n : nf[i] = Kept[i]
                /\ NextLine(nf[n + 1]) = nf[n + 1]
                /\ nf[n + 1][Len(nf[n + 1])] = NL
                /\ IsMatch(nf[n + 1])
                /\ IsInt(FieldsOf(nf[n + 1])[4])
                /\ ValueOf(nf[n + 1]) = params.value
                /\ HasEofLine(InLines) => IsEofLine(nf[n + 2])

\* C5: sentinel preservation.  If a line of the input starts with the
\* sentinel marker, the output has exactly one sentinel line and it is the
\* last line; if the input has none, the output has none.
C5_Sentinel ==
    Finished =>
        IF HasEofLine(InLines)
        THEN /\ OutLines # <<>>
             /\ IsEofLine(OutLines[Len(OutLines)])
             /\ Cardinality({i \in 1..Len(OutLines) : IsEofLine(OutLines[i])}) = 1
        ELSE ~HasEofLine(OutLines)

\* C6: comment of a written record.  A rewritten line carries the override
\* comment of the request if there is one, else its own original trailing
\* comment; an appended line carries the override comment or none.
C6_Comment ==
    Finished =>
        /\ \A i \in 1..Len(Kept) :
              (IsMatch(Kept[i]) /\ nf[i] # Kept[i]) =>
                  CommentText(nf[i]) =
                      IF params.comment # <<>> THEN params.comment
                      ELSE CommentText(Kept[i])
        /\ ~HasMatch(Kept) =>
              /\ Len(nf) > Len(Kept)
              /\ CommentText(nf[Len(Kept) + 1]) = params.comment

\* C7: parse error.  When a line of four fields holds a value that is not
\* a base 10 integer, the invocation cannot complete: the loop never gets
\* past its lines, the target is never replaced and keeps its content.
\* (Stated as: the invocation is in that condition, or the input has no
\* such line.)
C7_ParseError ==
    \/ /\ pc \notin {"eof", "close", "move", "exit", "done"}
       /\ ~(pc = "loop" /\ f = <<>>)
       /\ moves = 0
       /\ limits_conf = before
    \/ LET lines == InLines
       IN ~\E i \in 1..Len(lines) :
             /\ ~IsEofLine(lines[i])
             /\ IsRecord(lines[i])
             /\ ~IsInt(FieldsOf(lines[i])[4])

\* C7 witness: the invocation died on a ValueError after it took the backup
\* and wrote to the temporary file.
C7_Witness ==
    /\ pc = "failed"
    /\ error = "parse"
    /\ backup_file.taken
    /\ nf # <<>>
    /\ limits_conf = before

\* C8: mutual exclusion.  With use_min and use_max both set the invocation
\* ends in the precondition error: no backup, no temporary file, nothing
\* read, no replacement, content unchanged.
C8_MutualExclusion ==
    (params.use_min /\ params.use_max)
    => /\ pc \in {"check", "failed"}
       /\ pc = "failed" => error = "precondition"
       /\ ~backup_file.taken
       /\ nf_state = "none"
       /\ nf = <<>>
       /\ f = <<>>
       /\ moves = 0
       /\ limits_conf = before

\* C8 witness: a request with both flags and backup failed on a file that
\* has content.
C8_Witness ==
    /\ pc = "failed"
    /\ error = "precondition"
    /\ params.use_min /\ params.use_max
    /\ params.backup
    /\ limits_conf # <<>>

\* C9: commit ordering.  The target is replaced at most once per
\* invocation, only when every line is consumed and the complete output is
\* in the closed temporary file; nothing touches a file afterwards; a
\* backup is taken before the replacement, of the unmodified target.
C9_CommitOrdering ==
    [][ /\ moves' <= 1
        /\ moves' > moves =>
              /\ f = <<>>
              /\ nf_state = "closed"
              /\ nf' = nf
              /\ limits_conf' = Flatten(nf)
              /\ LET n == Len(Kept)
                 IN Len(nf) = n + (IF found THEN 0 ELSE 1) + (IF has_eof THEN 1 ELSE 0)
        /\ limits_conf' # limits_conf => moves' > moves
        /\ (moves = 1 /\ run' = run) =>
              /\ limits_conf' = limits_conf
              /\ backup_file' = backup_file
              /\ nf' = nf
              /\ nf_state' = nf_state
        /\ backup_file'.taken =>
              /\ params.backup
              /\ backup_file'.content = before'
        /\ (pc' = "move" /\ params.backup) => backup_file'.taken
      ]_vars

\* C9 witness: an invocation with backup replaced the target by different
\* content that ends in the sentinel.
C9_Witness ==
    /\ Finished
    /\ moves = 1
    /\ backup_file.taken
    /\ backup_file.content = before
    /\ limits_conf # before
    /\ has_eof

\* C10: the changed flag agrees with the file.  A successful invocation
\* reports changed = false iff the content of the target is byte-identical
\* to its content before the invocation.
C10_ChangedAgrees ==
    Finished => (~changed <=> limits_conf = before)

====
